---------------------------- MODULE Spec2Model ----------------------------
(***************************************************************************)
(* AIDA64 shared-memory sensor backend                                     *)
(* (library/sensors/sensors_aida64.py).                                    *)
(*                                                                         *)
(* The module models one acquisition cycle (read_aida64_shared_memory:     *)
(* open the named mapping, map a view, read and parse the payload, write   *)
(* the process-wide cache, release the view and the handle), the value     *)
(* lookup get_sensor_value, and the Cpu / Gpu / Memory facades built on    *)
(* them.                                                                   *)
(*                                                                         *)
(* Text is a sequence of one-character strings, so that str.startswith,    *)
(* the "in" test on strings and float() are computed and not looked up.    *)
(* A Python float is kept as nan, inf or an exact non-negative rational    *)
(* n/d in lowest terms (IEEE rounding is not modelled; the payload texts   *)
(* used are non-negative decimal integers, "nan" and "inf").               *)
(***************************************************************************)
EXTENDS Integers, Sequences, FiniteSets, TLC

VARIABLES
    shm,            \* the external producer: outcome of open / map, and the payload
    _sensor_cache,  \* module global, line 55
    _cache_valid,   \* module global, line 56
    pc,             \* per thread: position in the running call
    query,          \* per thread: the facade query being served
    data,           \* per thread: table returned by the last acquisition cycle
    vals,           \* per thread: floats already obtained by the running query
    cyc,            \* per thread: outcome of each cycle the query has completed
    result,         \* per thread: what the query returned (or raised)
    oscalls,        \* per thread: kernel32 calls issued by the current cycle
    logged,         \* per thread: cause passed to logger.error by the last cycle
    prev,           \* history, per thread: what the call before returned, kept when
                    \* that call asked for the same query and the producer has
                    \* not changed since it started
    steady,         \* history, per thread: the producer has not changed since the
                    \* running (or last) call started
    swapped         \* history: sensors_data of the cycle that last ran line 158

vars == <<shm, _sensor_cache, _cache_valid, pc, query, data, vals, cyc,
          result, oscalls, logged, prev, steady, swapped>>

----------------------------------------------------------------------------
(* Bounds of the model *)

\* longest payload (in elements) of the specification with a changing producer
MaxRecords == 2
\* longest payload of the parser specification
MaxParseRecords == 2
\* longest payload of the resolver specification
MaxQueryRecords == 3
\* longest payload of the specification with two threads
MaxThreadRecords == 1

----------------------------------------------------------------------------
(* Text *)

\* element.find(child) returned None: the child element is absent
Absent == <<"<absent>">>
\* element.text is None: the child is there and holds no text
NoneText == <<"<None>">>

IsStr(s) == s # Absent /\ s # NoneText

\* s.startswith(p), for strings
StartsWith(s, p) == Len(s) >= Len(p) /\ SubSeq(s, 1, Len(p)) = p

\* p in s, for strings
Contains(s, p) ==
    \E i \in 0..(Len(s) - Len(p)) : SubSeq(s, i + 1, i + Len(p)) = p

Digits == <<"0", "1", "2", "3", "4", "5", "6", "7", "8", "9">>

IsDigit(c) == \E i \in 1..10 : Digits[i] = c

DigitVal(c) == (CHOOSE i \in 1..10 : Digits[i] = c) - 1

RECURSIVE DecimalValue(_)
DecimalValue(s) ==
    IF s = <<>> THEN 0
    ELSE 10 * DecimalValue(SubSeq(s, 1, Len(s) - 1)) + DigitVal(s[Len(s)])

----------------------------------------------------------------------------
(* Floats *)

NaN == [k |-> "nan", n |-> 0, d |-> 1]
Inf == [k |-> "inf", n |-> 0, d |-> 1]

RECURSIVE Gcd(_, _)
Gcd(a, b) == IF b = 0 THEN a ELSE Gcd(b, a % b)

Fin(n, d) ==
    LET g == Gcd(n, d) IN [k |-> "fin", n |-> n \div g, d |-> d \div g]

IsNan(x) == x.k = "nan"

\* x < y on floats (False whenever a nan is involved)
FLess(x, y) ==
    /\ ~IsNan(x) /\ ~IsNan(y)
    /\ x.k = "fin"
    /\ (y.k = "inf" \/ x.n * y.d < y.n * x.d)

\* x + y
FAdd(x, y) ==
    IF IsNan(x) \/ IsNan(y) THEN NaN
    ELSE IF x.k = "inf" \/ y.k = "inf" THEN Inf
    ELSE Fin(x.n * y.d + y.n * x.d, x.d * y.d)

\* x * y
FMul(x, y) ==
    IF IsNan(x) \/ IsNan(y) THEN NaN
    ELSE IF x.k = "inf" \/ y.k = "inf"
         THEN (IF (x.k = "fin" /\ x.n = 0) \/ (y.k = "fin" /\ y.n = 0)
               THEN NaN ELSE Inf)
    ELSE Fin(x.n * y.n, x.d * y.d)

IsZero(x) == x.k = "fin" /\ x.n = 0

\* x / y for y # 0 (Python raises ZeroDivisionError for y = 0: see Gpu_stats)
FDiv(x, y) ==
    IF IsNan(x) \/ IsNan(y) THEN NaN
    ELSE IF x.k = "inf" THEN (IF y.k = "inf" THEN NaN ELSE Inf)
    ELSE IF y.k = "inf" THEN Fin(0, 1)
    ELSE Fin(x.n * y.d, x.d * y.n)

\* min(a, x) of the built-in: the first argument unless the second is smaller
FMin(a, x) == IF FLess(x, a) THEN x ELSE a

\* float(text): a float, or the exception float() raises
\*   None                      -> TypeError
\*   "nan" / "inf"             -> nan / inf
\*   a string of digits        -> its value
\*   anything else             -> ValueError
ParseFloat(text) ==
    IF text = NoneText THEN [exc |-> "TypeError", f |-> NaN]
    ELSE IF text = <<"n", "a", "n">> THEN [exc |-> "", f |-> NaN]
    ELSE IF text = <<"i", "n", "f">> THEN [exc |-> "", f |-> Inf]
    ELSE IF text # <<>> /\ \A i \in 1..Len(text) : IsDigit(text[i])
         THEN [exc |-> "", f |-> Fin(DecimalValue(text), 1)]
    ELSE [exc |-> "ValueError", f |-> NaN]

----------------------------------------------------------------------------
(* Payload and sensor table *)

\* The five element names the parser walks, in the order of its five loops
Tags == <<"sys", "temp", "fan", "volt", "pwr">>

\* A payload element: its tag and its id / label / value children
\* (each a string, NoneText, or Absent)
Element(tag, id, label, value) ==
    [tag |-> tag, id |-> id, label |-> label, value |-> value]

\* sensors_data = {} : a dict, kept as the sequence of its items in insertion
\* order (the order dict.items() yields)
EmptyTable == <<>>

HasKey(tbl, key) == \E i \in 1..Len(tbl) : tbl[i].key = key

Lookup(tbl, key) == tbl[CHOOSE i \in 1..Len(tbl) : tbl[i].key = key]

Keys(tbl) == {tbl[i].key : i \in 1..Len(tbl)}

\* a dict that overwrites nothing: the first record of an id stays
DictSetKeepFirst(tbl, key, type, label, value) ==
    IF HasKey(tbl, key) THEN tbl
    ELSE Append(tbl, [key |-> key, type |-> type, label |-> label, value |-> value])

\* sensors_data[key] = {'type': .., 'label': .., 'value': ..}
\* an existing key keeps its place and takes the new value; a new key goes last
DictSet(tbl, key, type, label, value) ==
    LET rec == [key |-> key, type |-> type, label |-> label, value |-> value]
    IN  IF HasKey(tbl, key)
        THEN [i \in 1..Len(tbl) |-> IF tbl[i].key = key THEN rec ELSE tbl[i]]
        ELSE Append(tbl, rec)

\* a test that lets an element without label or value through
HasIdOnly(e) == e.id # Absent

\* id_elem is not None and label_elem is not None and value_elem is not None
HasAllChildren(e) == e.id # Absent /\ e.label # Absent /\ e.value # Absent

\* one "for elem in root.findall(tag)" loop, from element i on
RECURSIVE ParseTag(_, _, _, _)
ParseTag(tbl, elems, tag, i) ==
    IF i > Len(elems) THEN tbl
    ELSE LET e == elems[i]
             next == IF e.tag = tag /\ HasAllChildren(e)
                     THEN DictSet(tbl, e.id, tag, e.label, e.value)
                     ELSE tbl
         IN  ParseTag(next, elems, tag, i + 1)

\* the five loops in a row, each walking the elements in document order
RECURSIVE ParseFrom(_, _, _)
ParseFrom(tbl, elems, t) ==
    IF t > Len(Tags) THEN tbl
    ELSE ParseFrom(ParseTag(tbl, elems, Tags[t], 1), elems, t + 1)

\* a parser that walks the document once, whatever the tag
RECURSIVE ParseDocOrder(_, _, _)
ParseDocOrder(tbl, elems, i) ==
    IF i > Len(elems) THEN tbl
    ELSE LET e == elems[i]
             next == IF (\E t \in 1..Len(Tags) : Tags[t] = e.tag) /\ HasAllChildren(e)
                     THEN DictSet(tbl, e.id, e.tag, e.label, e.value)
                     ELSE tbl
         IN  ParseDocOrder(next, elems, i + 1)

ParseSensorsDocOrder(elems) == ParseDocOrder(EmptyTable, elems, 1)

\* lines 94-155: the table built from a well-formed payload
ParseSensors(elems) == ParseFrom(EmptyTable, elems, 1)

----------------------------------------------------------------------------
(* kernel32 through ctypes *)

\* What the Python code sees of a HANDLE / LPVOID result: restype c_void_p
\* hands a NULL pointer back as None and any other pointer as an int.
NoneHandle == "None"
\* ctypes.c_void_p(-1).value
InvalidHandleValue == "INVALID"
ZeroHandle == "0"
ValidHandle == "H"
View == "P"

\* OpenFileMappingW: a handle, or NULL on failure; the code also tests for
\* INVALID_HANDLE_VALUE, so the producer may answer that as well
OpenFileMapping(s) ==
    CASE s.open = "handle"  -> ValidHandle
      [] s.open = "null"    -> NoneHandle
      [] s.open = "invalid" -> InvalidHandleValue

\* a test that also catches None
IsFalsyOrInvalidHandle(h) == h = InvalidHandleValue \/ h = ZeroHandle \/ h = NoneHandle

\* line 70: h_map_file == ctypes.c_void_p(-1).value or h_map_file == 0
IsInvalidHandle(h) == h = InvalidHandleValue \/ h = ZeroHandle

\* MapViewOfFile: NULL for a handle that is no mapping, else as the producer decides
MapViewOfFile(h, s) ==
    IF h = ValidHandle /\ s.map = "view" THEN View ELSE NoneHandle

Call(name, arg, ret) == [call |-> name, arg |-> arg, ret |-> ret]

\* ctypes.get_last_error() as read on line 71
ErrorCodes == {0, 2, 5}

\* lines 72-77: the exception raised for an invalid handle
OpenFailureCause(err) ==
    IF err = 5 THEN "access denied"
    ELSE IF err = 2 THEN "not found"
    ELSE "WinError"

----------------------------------------------------------------------------
(* Sensor ids and constants of the facades *)

SCPUUTI == <<"S", "C", "P", "U", "U", "T", "I">>
SCPUCLK == <<"S", "C", "P", "U", "C", "L", "K">>
TCPUPKG == <<"T", "C", "P", "U", "P", "K", "G">>
TCPUIAC == <<"T", "C", "P", "U", "I", "A", "C">>
TCPU == <<"T", "C", "P", "U">>
FCPU == <<"F", "C", "P", "U">>
VCPU == <<"V", "C", "P", "U">>
PCPUPKG == <<"P", "C", "P", "U", "P", "K", "G">>
TGPU1 == <<"T", "G", "P", "U", "1">>
SUSEDVMEM == <<"S", "U", "S", "E", "D", "V", "M", "E", "M">>
SFREEVMEM == <<"S", "F", "R", "E", "E", "V", "M", "E", "M">>
FGPU1 == <<"F", "G", "P", "U", "1">>
VGPU1 == <<"V", "G", "P", "U", "1">>
PGPU1 == <<"P", "G", "P", "U", "1">>
SVIRTMEMUTI == <<"S", "V", "I", "R", "T", "M", "E", "M", "U", "T", "I">>
SMEMUTI == <<"S", "M", "E", "M", "U", "T", "I">>
SUSEDMEM == <<"S", "U", "S", "E", "D", "M", "E", "M">>
SFREEMEM == <<"S", "F", "R", "E", "E", "M", "E", "M">>

\* 'SCC-' and 'Clock' of Cpu.frequency
SccPrefix == <<"S", "C", "C", "-">>
ClockWord == <<"C", "l", "o", "c", "k">>

CpuFanMaxRpm == 2000
GpuFanMaxRpm == 3000
BytesPerMb == 1048576

----------------------------------------------------------------------------
(* What a call returns *)

NoResult == [kind |-> "none", v |-> <<>>, exc |-> ""]
Returns(kind, v) == [kind |-> kind, v |-> v, exc |-> ""]
Raises(exc) == [kind |-> "raise", v |-> <<>>, exc |-> exc]

True == Fin(1, 1)
False == Fin(0, 1)

\* a handler that lets TypeError through
CaughtValueErrorOnly == {"ValueError", "KeyError"}

\* line 179: except (ValueError, KeyError, TypeError)
CaughtByGetSensorValue == {"ValueError", "KeyError", "TypeError"}

\* lines 177-181 of get_sensor_value, on the table its cycle returned:
\* the float, default_value (nan) for a missing id or a caught exception;
\* exc names an exception the handler does not catch
GetSensorValue(tbl, sensor_id) ==
    IF HasKey(tbl, sensor_id)
    THEN LET p == ParseFloat(Lookup(tbl, sensor_id).value)
         IN  IF p.exc = "" THEN p
             ELSE IF p.exc \in CaughtByGetSensorValue THEN [exc |-> "", f |-> NaN]
             ELSE p
    ELSE [exc |-> "", f |-> NaN]

\* lines 210-216: the loop over data.items(), from item i on
\*   sensor_id.startswith('SCC-')         AttributeError when the key is None
\*   'Clock' in sensor_data.get('label')  TypeError when the label is None
\*   float(sensor_data['value'])          ValueError / TypeError: continue
RECURSIVE ScanClocks(_, _, _)
ScanClocks(tbl, i, freqs) ==
    IF i > Len(tbl) THEN [exc |-> "", freqs |-> freqs]
    ELSE LET e == tbl[i] IN
         IF e.key = NoneText THEN [exc |-> "AttributeError", freqs |-> freqs]
         ELSE IF ~StartsWith(e.key, SccPrefix) THEN ScanClocks(tbl, i + 1, freqs)
         ELSE IF e.label = NoneText THEN [exc |-> "TypeError", freqs |-> freqs]
         ELSE IF ~Contains(e.label, ClockWord) THEN ScanClocks(tbl, i + 1, freqs)
         ELSE LET p == ParseFloat(e.value)
              IN  IF p.exc \in {"ValueError", "TypeError"}
                  THEN ScanClocks(tbl, i + 1, freqs)
                  ELSE ScanClocks(tbl, i + 1, Append(freqs, p.f))

\* max(frequencies) of the built-in: the first item, replaced by each later
\* item that compares greater
RECURSIVE PyMaxFrom(_, _, _)
PyMaxFrom(xs, i, best) ==
    IF i > Len(xs) THEN best
    ELSE PyMaxFrom(xs, i + 1, IF FLess(best, xs[i]) THEN xs[i] ELSE best)

PyMax(xs) == PyMaxFrom(xs, 2, xs[1])

\* lines 208-221 of Cpu.frequency, on the table of its second cycle
FrequencyFallback(tbl) ==
    LET s == ScanClocks(tbl, 1, <<>>)
    IN  IF s.exc # "" THEN Raises(s.exc)
        ELSE IF s.freqs # <<>> THEN Returns("float", <<PyMax(s.freqs)>>)
        ELSE Returns("float", <<NaN>>)

\* min(100.0, (fan_rpm / max_rpm) * 100.0), or nan (lines 258-262, 303-307)
FanPercent(fan_rpm, max_rpm) ==
    IF ~IsNan(fan_rpm)
    THEN FMin(Fin(100, 1), FMul(FDiv(fan_rpm, Fin(max_rpm, 1)), Fin(100, 1)))
    ELSE NaN

\* int(mb * 1024 * 1024), or 0 (lines 345-348, 353-356);
\* int() of an infinite float raises OverflowError
MemoryBytes(mb) ==
    IF ~IsNan(mb)
    THEN IF mb.k = "inf" THEN Raises("OverflowError")
         ELSE LET b == FMul(mb, Fin(BytesPerMb, 1))
              IN  Returns("int", <<Fin(b.n \div b.d, 1)>>)
    ELSE Returns("int", <<Fin(0, 1)>>)

\* lines 279-293 of Gpu.stats, from the three values read
GpuStatsTuple(temp, used_mem, free_mem) ==
    LET load == NaN IN
    IF ~IsNan(used_mem) /\ ~IsNan(free_mem)
    THEN LET total_mem == FAdd(used_mem, free_mem)
         IN  IF IsZero(total_mem) THEN Raises("ZeroDivisionError")
             ELSE Returns("tuple",
                    <<load, FMul(FDiv(used_mem, total_mem), Fin(100, 1)),
                      used_mem, total_mem, temp>>)
    ELSE Returns("tuple", <<load, NaN, used_mem, NaN, temp>>)

----------------------------------------------------------------------------
(* The facades, one acquisition cycle at a time.                           *)
(* Each takes k, the number of cycles the call has completed, vs, the      *)
(* floats it holds from the earlier ones, and tbl, the table cycle k       *)
(* returned; it answers with the call's result or asks for one more cycle. *)

Done(r) == [done |-> TRUE, vals |-> <<>>, result |-> r]
More(vs) == [done |-> FALSE, vals |-> vs, result |-> NoResult]

\* return get_sensor_value(sensor_id)
Direct(tbl, sensor_id) ==
    LET g == GetSensorValue(tbl, sensor_id)
    IN  IF g.exc # "" THEN Done(Raises(g.exc)) ELSE Done(Returns("float", <<g.f>>))

\* value = get_sensor_value(sensor_id); if not math.isnan(value): return value
ReturnUnlessNan(tbl, sensor_id, vs) ==
    LET g == GetSensorValue(tbl, sensor_id)
    IN  IF g.exc # "" THEN Done(Raises(g.exc))
        ELSE IF ~IsNan(g.f) THEN Done(Returns("float", <<g.f>>))
        ELSE More(Append(vs, g.f))

\* value = get_sensor_value(sensor_id), kept for later
Read(tbl, sensor_id, vs) ==
    LET g == GetSensorValue(tbl, sensor_id)
    IN  IF g.exc # "" THEN Done(Raises(g.exc)) ELSE More(Append(vs, g.f))

Cpu_percentage(k, vs, tbl) == Direct(tbl, SCPUUTI)

Cpu_frequency(k, vs, tbl) ==
    IF k = 1 THEN ReturnUnlessNan(tbl, SCPUCLK, vs)
    ELSE Done(FrequencyFallback(tbl))

\* a chain that asks for the generic CPU temperature before the IA cores
Cpu_temperature_generic_first(k, vs, tbl) ==
    IF k = 1 THEN ReturnUnlessNan(tbl, TCPUPKG, vs)
    ELSE IF k = 2 THEN ReturnUnlessNan(tbl, TCPU, vs)
    ELSE Direct(tbl, TCPUIAC)

Cpu_temperature(k, vs, tbl) ==
    IF k = 1 THEN ReturnUnlessNan(tbl, TCPUPKG, vs)
    ELSE IF k = 2 THEN ReturnUnlessNan(tbl, TCPUIAC, vs)
    ELSE Direct(tbl, TCPU)

Cpu_fan_percent(k, vs, tbl) ==
    LET g == GetSensorValue(tbl, FCPU)
    IN  IF g.exc # "" THEN Done(Raises(g.exc))
        ELSE Done(Returns("float", <<FanPercent(g.f, CpuFanMaxRpm)>>))

Cpu_voltage(k, vs, tbl) == Direct(tbl, VCPU)

Cpu_power(k, vs, tbl) == Direct(tbl, PCPUPKG)

Gpu_stats(k, vs, tbl) ==
    IF k = 1 THEN Read(tbl, TGPU1, vs)
    ELSE IF k = 2 THEN Read(tbl, SUSEDVMEM, vs)
    ELSE LET g == GetSensorValue(tbl, SFREEVMEM)
         IN  IF g.exc # "" THEN Done(Raises(g.exc))
             ELSE Done(GpuStatsTuple(vs[1], vs[2], g.f))

Gpu_fps == Returns("int", <<Fin(-1, 1)>>)

Gpu_fan_percent(k, vs, tbl) ==
    LET g == GetSensorValue(tbl, FGPU1)
    IN  IF g.exc # "" THEN Done(Raises(g.exc))
        ELSE Done(Returns("float", <<FanPercent(g.f, GpuFanMaxRpm)>>))

Gpu_frequency == Returns("float", <<NaN>>)

Gpu_voltage(k, vs, tbl) == Direct(tbl, VGPU1)

Gpu_power(k, vs, tbl) == Direct(tbl, PGPU1)

Gpu_is_available(k, vs, tbl) ==
    LET g == GetSensorValue(tbl, TGPU1)
    IN  IF g.exc # "" THEN Done(Raises(g.exc))
        ELSE Done(Returns("bool", <<IF ~IsNan(g.f) THEN True ELSE False>>))

Memory_swap_percent(k, vs, tbl) == Direct(tbl, SVIRTMEMUTI)

Memory_virtual_percent(k, vs, tbl) == Direct(tbl, SMEMUTI)

Memory_virtual_used(k, vs, tbl) ==
    LET g == GetSensorValue(tbl, SUSEDMEM)
    IN  IF g.exc # "" THEN Done(Raises(g.exc)) ELSE Done(MemoryBytes(g.f))

Memory_virtual_free(k, vs, tbl) ==
    LET g == GetSensorValue(tbl, SFREEMEM)
    IN  IF g.exc # "" THEN Done(Raises(g.exc)) ELSE Done(MemoryBytes(g.f))

\* the module's own call at load time (lines 402-409): the table itself
TestConnection(k, vs, tbl) == Done(Returns("table", <<>>))

\* the facade queries that go through the shared memory
SensorQueries ==
    {"Cpu.percentage", "Cpu.frequency", "Cpu.temperature", "Cpu.fan_percent",
     "Cpu.voltage", "Cpu.power",
     "Gpu.stats", "Gpu.fan_percent", "Gpu.voltage", "Gpu.power", "Gpu.is_available",
     "Memory.swap_percent", "Memory.virtual_percent",
     "Memory.virtual_used", "Memory.virtual_free"}

\* the facade queries that answer with a constant
ConstantQueries == {"Gpu.fps", "Gpu.frequency"}

FacadeQueries == SensorQueries \cup ConstantQueries

Queries == FacadeQueries \cup {"read"}

Resolve(q, k, vs, tbl) ==
    CASE q = "Cpu.percentage"         -> Cpu_percentage(k, vs, tbl)
      [] q = "Cpu.frequency"          -> Cpu_frequency(k, vs, tbl)
      [] q = "Cpu.temperature"        -> Cpu_temperature(k, vs, tbl)
      [] q = "Cpu.fan_percent"        -> Cpu_fan_percent(k, vs, tbl)
      [] q = "Cpu.voltage"            -> Cpu_voltage(k, vs, tbl)
      [] q = "Cpu.power"              -> Cpu_power(k, vs, tbl)
      [] q = "Gpu.stats"              -> Gpu_stats(k, vs, tbl)
      [] q = "Gpu.fan_percent"        -> Gpu_fan_percent(k, vs, tbl)
      [] q = "Gpu.voltage"            -> Gpu_voltage(k, vs, tbl)
      [] q = "Gpu.power"              -> Gpu_power(k, vs, tbl)
      [] q = "Gpu.is_available"       -> Gpu_is_available(k, vs, tbl)
      [] q = "Memory.swap_percent"    -> Memory_swap_percent(k, vs, tbl)
      [] q = "Memory.virtual_percent" -> Memory_virtual_percent(k, vs, tbl)
      [] q = "Memory.virtual_used"    -> Memory_virtual_used(k, vs, tbl)
      [] q = "Memory.virtual_free"    -> Memory_virtual_free(k, vs, tbl)
      [] q = "read"                   -> TestConnection(k, vs, tbl)

ConstantResult(q) ==
    CASE q = "Gpu.fps"       -> Gpu_fps
      [] q = "Gpu.frequency" -> Gpu_frequency

----------------------------------------------------------------------------
(* The producer *)

\* the mapping does not exist: OpenFileMappingW answers NULL
Unavailable == [open |-> "null", map |-> "null", wellformed |-> FALSE, elems |-> <<>>]
\* the open answers INVALID_HANDLE_VALUE
InvalidOpen == [open |-> "invalid", map |-> "null", wellformed |-> FALSE, elems |-> <<>>]
\* the mapping opens and MapViewOfFile answers NULL
MapFails == [open |-> "handle", map |-> "null", wellformed |-> FALSE, elems |-> <<>>]
\* the view holds text that is no well-formed markup
Malformed == [open |-> "handle", map |-> "view", wellformed |-> FALSE, elems |-> <<>>]
\* the view holds a well-formed sequence of elements
Serving(elems) == [open |-> "handle", map |-> "view", wellformed |-> TRUE, elems |-> elems]

Failing == {Unavailable, InvalidOpen, MapFails, Malformed}

SeqsUpTo(S, n) == UNION {[1..k -> S] : k \in 0..n}

Producers(payloads) == Failing \cup {Serving(p) : p \in payloads}

Threads == {"main", "worker"}

----------------------------------------------------------------------------
(* Texts of the payloads *)

LabelCpu == <<"C", "P", "U">>
LabelGpu == <<"G", "P", "U">>
LabelCpuClock == <<"C", "P", "U", " ", "C", "l", "o", "c", "k">>
LabelUsedMemory == <<"U", "s", "e", "d">>
NotANumber == <<"N", "/", "A">>
TextNan == <<"n", "a", "n">>
TextInf == <<"i", "n", "f">>

\* the payloads of the specification with a changing producer
CycleRecords ==
    {Element("temp", TGPU1, LabelGpu, <<"6", "5">>),
     Element("sys", SCPUCLK, LabelCpuClock, <<"3", "4", "0", "0">>)}

CycleProducers == Producers(SeqsUpTo(CycleRecords, MaxRecords))

\* the producers of the specification with two threads: one failure (a
\* payload that does not parse) and the payloads
ThreadProducers ==
    {Malformed} \cup {Serving(p) : p \in SeqsUpTo(CycleRecords, MaxThreadRecords)}

\* the queries the two threads issue: one of one cycle, one of up to two
ThreadQueries == {"Gpu.is_available", "Cpu.frequency"}

\* the payloads of the parser specification: complete elements of every tag,
\* with an id of no text or one of two ids and one of two values, and
\* elements of every tag that lack the id, the label or the value
ParseRecords ==
    {Element(Tags[t], id, LabelCpu, value) :
        t \in 1..Len(Tags), id \in {NoneText, TCPU, FCPU},
        value \in {<<"4", "0">>, <<"5", "5">>}}
    \cup {Element(Tags[t], Absent, LabelCpu, <<"4", "0">>) : t \in 1..Len(Tags)}
    \cup {Element(Tags[t], TCPU, Absent, <<"4", "0">>) : t \in 1..Len(Tags)}
    \cup {Element(Tags[t], TCPU, LabelCpu, Absent) : t \in 1..Len(Tags)}

ParseProducers == Producers(SeqsUpTo(ParseRecords, MaxParseRecords))

LabelClock0 == <<"C", "0", " ", "C", "l", "o", "c", "k">>
LabelClock1 == <<"C", "1", " ", "C", "l", "o", "c", "k">>
LabelMult0 == <<"C", "0", " ", "M", "u", "l", "t">>
LabelFree == <<"F", "r", "e", "e">>
Scc0 == <<"S", "C", "C", "-", "0">>
Scc1 == <<"S", "C", "C", "-", "1">>

\* the payloads of the resolver specification: a payload is made of the
\* records of one of these groups

\* the clock records Cpu.frequency reads
FrequencyRecords ==
    {Element("sys", SCPUCLK, LabelCpuClock, <<"3", "4", "0", "0">>),
     Element("sys", SCPUCLK, LabelCpuClock, NotANumber),
     Element("sys", Scc0, LabelClock0, <<"3", "2", "0", "0">>),
     Element("sys", Scc1, LabelClock1, <<"3", "6", "0", "0">>),
     Element("sys", Scc1, LabelClock1, NotANumber),
     Element("sys", Scc1, LabelClock1, TextNan),
     Element("sys", Scc0, LabelMult0, <<"3", "2">>),
     Element("sys", Scc0, NoneText, <<"3", "2", "0", "0">>),
     Element("sys", NoneText, LabelClock1, <<"3", "6", "0", "0">>)}

\* the records Cpu.temperature reads
TemperatureRecords ==
    {Element("temp", TCPUPKG, LabelCpu, <<"6", "0">>),
     Element("temp", TCPUPKG, LabelCpu, NotANumber),
     Element("temp", TCPUPKG, LabelCpu, NoneText),
     Element("temp", TCPUIAC, LabelCpu, <<"5", "5">>),
     Element("temp", TCPUIAC, LabelCpu, TextNan),
     Element("temp", TCPU, LabelCpu, <<"5", "0">>),
     Element("temp", TCPU, LabelCpu, TextInf)}

\* the records Gpu.stats and Gpu.is_available read
GpuRecords ==
    {Element("temp", TGPU1, LabelGpu, <<"6", "5">>),
     Element("sys", SUSEDVMEM, LabelUsedMemory, <<"1", "0", "2", "4">>),
     Element("sys", SUSEDVMEM, LabelUsedMemory, <<"0">>),
     Element("sys", SUSEDVMEM, LabelUsedMemory, NotANumber),
     Element("sys", SFREEVMEM, LabelFree, <<"3", "0", "7", "2">>),
     Element("sys", SFREEVMEM, LabelFree, <<"0">>),
     Element("sys", SFREEVMEM, LabelFree, TextInf)}

\* the records of the Memory facade (megabytes small enough for the byte
\* counts to stay below 2^31, the largest integer of the model checker)
MemoryRecords ==
    {Element("sys", SUSEDMEM, LabelUsedMemory, <<"1", "0", "2", "4">>),
     Element("sys", SUSEDMEM, LabelUsedMemory, TextInf),
     Element("sys", SFREEMEM, LabelFree, <<"5", "1", "2">>),
     Element("sys", SFREEMEM, LabelFree, NotANumber),
     Element("sys", SMEMUTI, LabelUsedMemory, <<"3", "3">>),
     Element("sys", SVIRTMEMUTI, LabelUsedMemory, <<"4", "0">>)}

\* the records of the other Cpu queries
CpuRecords ==
    {Element("fan", FCPU, LabelCpu, <<"1", "0", "0", "0">>),
     Element("fan", FCPU, LabelCpu, <<"3", "0", "0", "0">>),
     Element("sys", SCPUUTI, LabelCpu, <<"1", "2">>),
     Element("volt", VCPU, LabelCpu, <<"1">>),
     Element("pwr", PCPUPKG, LabelCpu, <<"4", "5">>)}

\* the records of the other Gpu queries
GpuOtherRecords ==
    {Element("fan", FGPU1, LabelGpu, <<"1", "5", "0", "0">>),
     Element("volt", VGPU1, LabelGpu, <<"1">>),
     Element("pwr", PGPU1, LabelGpu, <<"1", "2", "0">>),
     Element("temp", TGPU1, LabelGpu, NotANumber)}

QueryRecordGroups ==
    {FrequencyRecords, TemperatureRecords, GpuRecords, MemoryRecords,
     CpuRecords, GpuOtherRecords}

QueryProducers ==
    Producers(UNION {SeqsUpTo(G, MaxQueryRecords) : G \in QueryRecordGroups})

----------------------------------------------------------------------------
(* Initial state: the module globals of lines 55-56, no call running *)

InitWith(producers) ==
    /\ shm \in producers
    /\ _sensor_cache = EmptyTable
    /\ _cache_valid = FALSE
    /\ pc = [t \in Threads |-> "idle"]
    /\ query = [t \in Threads |-> "none"]
    /\ data = [t \in Threads |-> EmptyTable]
    /\ vals = [t \in Threads |-> <<>>]
    /\ cyc = [t \in Threads |-> <<>>]
    /\ result = [t \in Threads |-> NoResult]
    /\ oscalls = [t \in Threads |-> <<>>]
    /\ logged = [t \in Threads |-> ""]
    /\ prev = [t \in Threads |-> NoResult]
    /\ steady = [t \in Threads |-> TRUE]
    /\ swapped = EmptyTable

Init == InitWith(CycleProducers)

InitParse == InitWith(ParseProducers)

InitQuery == InitWith(QueryProducers)

InitThreads == InitWith(ThreadProducers)

----------------------------------------------------------------------------
(* Actions *)

\* a thread calls a facade query (or the module calls
\* read_aida64_shared_memory itself)
Start(t, q) ==
    /\ pc[t] \in {"idle", "done"}
    /\ query' = [query EXCEPT ![t] = q]
    /\ pc' = [pc EXCEPT ![t] = IF q \in ConstantQueries THEN "done" ELSE "acquire"]
    /\ result' = [result EXCEPT ![t] =
                    IF q \in ConstantQueries THEN ConstantResult(q) ELSE NoResult]
    /\ data' = [data EXCEPT ![t] = EmptyTable]
    /\ vals' = [vals EXCEPT ![t] = <<>>]
    /\ cyc' = [cyc EXCEPT ![t] = <<>>]
    /\ oscalls' = [oscalls EXCEPT ![t] = <<>>]
    /\ logged' = [logged EXCEPT ![t] = ""]
    /\ prev' = [prev EXCEPT ![t] =
                  IF pc[t] = "done" /\ query[t] = q /\ steady[t]
                  THEN result[t] ELSE NoResult]
    /\ steady' = [steady EXCEPT ![t] = TRUE]
    /\ UNCHANGED <<shm, _sensor_cache, _cache_valid, swapped>>

\* an exception leaves the try blocks of lines 65-166: the finally clauses
\* passed on the way have run (calls), the handler of line 168 is next
Raise(t, calls, cause) ==
    /\ pc' = [pc EXCEPT ![t] = "except"]
    /\ oscalls' = [oscalls EXCEPT ![t] = calls]
    /\ logged' = [logged EXCEPT ![t] = cause]
    /\ UNCHANGED <<shm, _sensor_cache, _cache_valid, query, data, vals, cyc, result,
                   prev, steady, swapped>>

CloseHandle(h) == Call("CloseHandle", h, IF h = ValidHandle THEN "TRUE" ELSE "FALSE")

UnmapViewOfFile(p) == Call("UnmapViewOfFile", p, "TRUE")

\* lines 65-155: open, test the handle, map, test the view, read, parse
Acquire(t) ==
    /\ pc[t] = "acquire"
    /\ LET h == OpenFileMapping(shm)
           open == Call("OpenFileMapping", "AIDA64_SensorValues", h)
           p == MapViewOfFile(h, shm)
           map == Call("MapViewOfFile", h, p)
       IN  IF IsInvalidHandle(h)
           THEN \E err \in ErrorCodes : Raise(t, <<open>>, OpenFailureCause(err))
           ELSE IF p = NoneHandle
           THEN Raise(t, <<open, map, CloseHandle(h)>>, "WinError")
           ELSE IF ~shm.wellformed
           THEN Raise(t, <<open, map, UnmapViewOfFile(p), CloseHandle(h)>>, "ParseError")
           ELSE /\ data' = [data EXCEPT ![t] = ParseSensors(shm.elems)]
                /\ oscalls' = [oscalls EXCEPT ![t] = <<open, map>>]
                /\ logged' = [logged EXCEPT ![t] = ""]
                /\ pc' = [pc EXCEPT ![t] = "set_cache"]
                /\ UNCHANGED <<shm, _sensor_cache, _cache_valid, query, vals, cyc, result,
                               prev, steady, swapped>>

\* a lookup that prefers the cached table while the cache is valid
ReadDataOrCache(tbl) == IF _cache_valid THEN _sensor_cache ELSE tbl

\* line 176 (and 208): data = read_aida64_shared_memory(), the table the
\* call returned and not the module global
ReadData(tbl) == tbl

\* read_aida64_shared_memory returns tbl to the running query, which goes on
Finish(t, tbl, outcome) ==
    LET c == Append(cyc[t], outcome)
        r == Resolve(query[t], Len(c), vals[t], ReadData(tbl))
    IN  /\ cyc' = [cyc EXCEPT ![t] = c]
        /\ data' = [data EXCEPT ![t] = tbl]
        /\ vals' = [vals EXCEPT ![t] = r.vals]
        /\ result' = [result EXCEPT ![t] = r.result]
        /\ pc' = [pc EXCEPT ![t] = IF r.done THEN "done" ELSE "acquire"]

\* dict.update: the records of new written over those of old, from record i on
RECURSIVE UpdateFrom(_, _, _)
UpdateFrom(old, new, i) ==
    IF i > Len(new) THEN old
    ELSE UpdateFrom(DictSet(old, new[i].key, new[i].type, new[i].label, new[i].value),
                    new, i + 1)

\* a cache write that merges the new records into the cached table
CacheUpdated(t) == UpdateFrom(_sensor_cache, data[t], 1)

\* the right-hand side of line 158: the reference to the finished sensors_data
CacheAssigned(t) == data[t]

\* line 158: _sensor_cache = sensors_data
SetCache(t) ==
    /\ pc[t] = "set_cache"
    /\ _sensor_cache' = CacheAssigned(t)
    /\ swapped' = data[t]
    /\ pc' = [pc EXCEPT ![t] = "set_valid"]
    /\ UNCHANGED <<shm, _cache_valid, query, data, vals, cyc, result, oscalls, logged,
                   prev, steady>>

\* lines 159-166: _cache_valid = True; return sensors_data, through both
\* finally clauses
SetValid(t) ==
    /\ pc[t] = "set_valid"
    /\ _cache_valid' = TRUE
    /\ oscalls' = [oscalls EXCEPT ![t] =
                     @ \o <<UnmapViewOfFile(View), CloseHandle(ValidHandle)>>]
    /\ Finish(t, data[t], "ok")
    /\ UNCHANGED <<shm, _sensor_cache, query, logged, prev, steady, swapped>>

\* a handler that hands the cached table back
ExceptReturnsCache == _sensor_cache

\* line 171: return {}
ExceptReturn == EmptyTable

\* a handler that leaves the flag alone
ValidKeptOnFailure == _cache_valid

\* line 170: _cache_valid = False
ValidAfterFailure == FALSE

\* lines 168-171: log, _cache_valid = False, return {}
Except(t) ==
    /\ pc[t] = "except"
    /\ _cache_valid' = ValidAfterFailure
    /\ Finish(t, ExceptReturn, "fail")
    /\ UNCHANGED <<shm, _sensor_cache, query, oscalls, logged, prev, steady, swapped>>

\* the producer starts, stops or rewrites the payload
ProducerChange(producers) ==
    /\ shm' \in producers \ {shm}
    /\ steady' = [t \in Threads |-> FALSE]
    /\ UNCHANGED <<_sensor_cache, _cache_valid, pc, query, data, vals, cyc,
                   result, oscalls, logged, prev, swapped>>

----------------------------------------------------------------------------
(* Specifications *)

\* one thread of control, every query, a producer that changes at any time
Next ==
    \/ ProducerChange(CycleProducers)
    \/ \E q \in Queries : Start("main", q)
    \/ Acquire("main")
    \/ SetCache("main")
    \/ SetValid("main")
    \/ Except("main")

Spec == Init /\ [][Next]_vars

\* the parser on every payload of ParseProducers: the producer does not
\* change, the only call is read_aida64_shared_memory itself
NextParse ==
    \/ Start("main", "read")
    \/ Acquire("main")
    \/ SetCache("main")
    \/ SetValid("main")
    \/ Except("main")

SpecParse == InitParse /\ [][NextParse]_vars

\* the facades on every payload of QueryProducers: the producer does not
\* change (an unchanged payload, or an unchanged failure)
NextQuery ==
    \/ \E q \in FacadeQueries : Start("main", q)
    \/ Acquire("main")
    \/ SetCache("main")
    \/ SetValid("main")
    \/ Except("main")

SpecQuery == InitQuery /\ [][NextQuery]_vars

\* two threads whose calls overlap at will, one step of one thread at a time
\* (the interpreter runs one thread at a time; the steps are the two global
\* writes of lines 158 and 159 / 170 and the thread-local work between them),
\* and a producer that changes at any time
NextThreads ==
    \/ ProducerChange(ThreadProducers)
    \/ \E t \in Threads : \E q \in ThreadQueries : Start(t, q)
    \/ \E t \in Threads : Acquire(t)
    \/ \E t \in Threads : SetCache(t)
    \/ \E t \in Threads : SetValid(t)
    \/ \E t \in Threads : Except(t)

SpecThreads == InitThreads /\ [][NextThreads]_vars

----------------------------------------------------------------------------
(* Properties *)

\* thread t is between two acquisition cycles of its call, or past the last
Returned(t) == pc[t] \in {"done", "acquire"} /\ cyc[t] # <<>>

LastCycle(t) == cyc[t][Len(cyc[t])]

AllFailed(t) == cyc[t] # <<>> /\ \A i \in 1..Len(cyc[t]) : cyc[t][i] = "fail"

\* the "not available" answer of each shared-memory query
Sentinel(q) ==
    CASE q = "Gpu.stats" -> Returns("tuple", <<NaN, NaN, NaN, NaN, NaN>>)
      [] q = "Gpu.is_available" -> Returns("bool", <<False>>)
      [] q \in {"Memory.virtual_used", "Memory.virtual_free"} ->
             Returns("int", <<Fin(0, 1)>>)
      [] OTHER -> Returns("float", <<NaN>>)

\* C1: a Cpu / Gpu / Memory query all of whose acquisition cycles failed
\* (open failure with any error code, map failure, malformed payload) has
\* returned its sentinel, and has raised nothing
C1_SentinelOnFailure ==
    \A t \in Threads :
        (pc[t] = "done" /\ query[t] \in SensorQueries /\ AllFailed(t))
            => result[t] = Sentinel(query[t])

\* a query of two cycles, both failed, while the cache still holds the table
\* of an earlier successful cycle
C1_Witness ==
    /\ pc["main"] = "done"
    /\ query["main"] = "Cpu.frequency"
    /\ cyc["main"] = <<"fail", "fail">>
    /\ HasKey(_sensor_cache, SCPUCLK)
    /\ result["main"] = Returns("float", <<NaN>>)

\* C2 as claimed: after a failed cycle the cache holds an empty table and
\* validity is false
C2_CacheEmptyAfterFailure ==
    \A t \in Threads :
        (Returned(t) /\ LastCycle(t) = "fail")
            => (_sensor_cache = EmptyTable /\ _cache_valid = FALSE)

\* C2 as amended: a failing cycle sets validity to false, returns an empty
\* table and leaves the cached table as it was before the cycle
C2_FailureKeepsCache ==
    [][\A t \in Threads :
          (pc[t] = "except" /\ pc'[t] # "except")
              => /\ _cache_valid' = FALSE
                 /\ data'[t] = EmptyTable
                 /\ _sensor_cache' = _sensor_cache]_vars

\* a failed cycle has returned and the cache still holds the records of the
\* successful cycle before it
C2_Witness ==
    /\ Returned("main") /\ LastCycle("main") = "fail"
    /\ data["main"] = EmptyTable
    /\ _sensor_cache # EmptyTable
    /\ _cache_valid = FALSE

CallsOf(log, name) == {i \in 1..Len(log) : log[i].call = name}

\* C3: when a cycle has returned, a handle it opened has been closed exactly
\* once, a view it mapped has been unmapped exactly once and before the close,
\* and a cycle whose open failed has called neither UnmapViewOfFile nor
\* CloseHandle
C3_ReleaseDiscipline ==
    \A t \in Threads :
        Returned(t) =>
            LET log == oscalls[t]
                opened == log[1].ret = ValidHandle
                mapped == \E i \in CallsOf(log, "MapViewOfFile") : log[i].ret = View
                unmaps == CallsOf(log, "UnmapViewOfFile")
                closes == CallsOf(log, "CloseHandle")
            IN  /\ Cardinality(unmaps) = (IF mapped THEN 1 ELSE 0)
                /\ \A i \in unmaps : log[i].arg = View
                /\ opened => (Cardinality(closes) = 1
                              /\ \A i \in closes : log[i].arg = ValidHandle)
                /\ \A i \in unmaps : \A j \in closes : i < j
                /\ ~opened => (unmaps = {} /\ closes = {})

\* a record the parser is to keep: one of the five elements, with an id, a
\* label and a value child
ValidRecord(e) ==
    /\ e.tag \in {"sys", "temp", "fan", "volt", "pwr"}
    /\ e.id # Absent /\ e.label # Absent /\ e.value # Absent

ValidAt(elems) == {i \in 1..Len(elems) : ValidRecord(elems[i])}

\* table entry x carries the id, category, label and value of element e
EntryOf(x, e) ==
    x.key = e.id /\ x.type = e.tag /\ x.label = e.label /\ x.value = e.value

\* thread t holds the table read_aida64_shared_memory built from the
\* payload the producer serves
ParsedBy(t) ==
    /\ pc[t] = "done" /\ query[t] = "read" /\ cyc[t] = <<"ok">>

\* C4 as claimed: the table of a payload with N valid records has exactly N
\* entries, keyed by the ids of the valid records, none from a malformed one
C4_ExactlyNEntries ==
    \A t \in Threads :
        ParsedBy(t) =>
            LET elems == shm.elems
                tbl == data[t]
            IN  /\ Len(tbl) = Cardinality(ValidAt(elems))
                /\ Keys(tbl) = {elems[i].id : i \in ValidAt(elems)}
                /\ \A k \in 1..Len(tbl) :
                       \E i \in ValidAt(elems) : EntryOf(tbl[k], elems[i])

\* C4 as amended: the table has one entry for each distinct id of the valid
\* records (N entries when the N valid records have N different ids), every
\* entry carries the fields of a valid record, none those of a malformed one
C4_OneEntryPerValidId ==
    \A t \in Threads :
        ParsedBy(t) =>
            LET elems == shm.elems
                tbl == data[t]
                ids == {elems[i].id : i \in ValidAt(elems)}
            IN  /\ Len(tbl) = Cardinality(ids)
                /\ Keys(tbl) = ids
                /\ \A k \in 1..Len(tbl) :
                       \E i \in ValidAt(elems) : EntryOf(tbl[k], elems[i])
                /\ (Cardinality(ids) = Cardinality(ValidAt(elems)))
                       => Len(tbl) = Cardinality(ValidAt(elems))

\* a payload of one valid and one malformed record with the same id, parsed
\* into a table of one entry
C4_Witness ==
    /\ ParsedBy("main")
    /\ Len(data["main"]) = 1
    /\ \E i, j \in 1..Len(shm.elems) :
           /\ ValidRecord(shm.elems[i]) /\ ~ValidRecord(shm.elems[j])
           /\ shm.elems[i].id = shm.elems[j].id

\* C5 as claimed: the entry of an id carries the category, label and value
\* of the valid record with that id that is last in document order
C5_LastInDocumentWins ==
    \A t \in Threads :
        ParsedBy(t) =>
            LET elems == shm.elems
                tbl == data[t]
            IN  \A k \in 1..Len(tbl) :
                    LET same == {i \in ValidAt(elems) : elems[i].id = tbl[k].key}
                        last == CHOOSE i \in same : \A j \in same : j <= i
                    IN  EntryOf(tbl[k], elems[last])

TagRank(tag) == CHOOSE r \in 1..Len(Tags) : Tags[r] = tag

\* record i comes before record j in the order sys, temp, fan, volt, pwr of
\* the categories and, within a category, in document order
ParsedBefore(elems, i, j) ==
    \/ TagRank(elems[i].tag) < TagRank(elems[j].tag)
    \/ (elems[i].tag = elems[j].tag /\ i <= j)

\* C5 as amended: the entry of an id carries the category, label and value
\* of the valid record with that id that is last in the order of the
\* categories (sys, temp, fan, volt, pwr) and, within its category, last in
\* document order
C5_LastParsedWins ==
    \A t \in Threads :
        ParsedBy(t) =>
            LET elems == shm.elems
                tbl == data[t]
            IN  \A k \in 1..Len(tbl) :
                    LET same == {i \in ValidAt(elems) : elems[i].id = tbl[k].key}
                        last == CHOOSE i \in same :
                                    \A j \in same : ParsedBefore(elems, j, i)
                    IN  EntryOf(tbl[k], elems[last])

\* two valid records with one id, the later one of an earlier category: the
\* entry is the one of the record that stands first in the document
C5_Witness ==
    /\ ParsedBy("main")
    /\ Len(shm.elems) = 2
    /\ ValidRecord(shm.elems[1]) /\ ValidRecord(shm.elems[2])
    /\ shm.elems[1].id = shm.elems[2].id
    /\ shm.elems[1].value # shm.elems[2].value
    /\ TagRank(shm.elems[2].tag) < TagRank(shm.elems[1].tag)
    /\ Len(data["main"]) = 1
    /\ EntryOf(data["main"][1], shm.elems[1])

\* C6: no table returned by a cycle, and no cached table, has a key that is
\* None or the empty string
C6_NoNullOrEmptyKey ==
    /\ NoneText \notin Keys(_sensor_cache) /\ <<>> \notin Keys(_sensor_cache)
    /\ \A t \in Threads :
           NoneText \notin Keys(data[t]) /\ <<>> \notin Keys(data[t])

\* every cycle of the call of thread t succeeded
AllOk(t) == cyc[t] # <<>> /\ \A i \in 1..Len(cyc[t]) : cyc[t][i] = "ok"

\* C7: a facade query of Cpu, Gpu or Memory whose cycles all parsed their
\* payload returns a value or its sentinel and raises nothing, whatever the
\* records of the table
C7_FacadeNeverRaises ==
    \A t \in Threads :
        (pc[t] = "done" /\ query[t] \in FacadeQueries /\ AllOk(t))
            => result[t].kind # "raise"

\* a text that reads as a number other than nan
IsNumber(text) ==
    \/ text = TextInf
    \/ /\ IsStr(text) /\ text # <<>>
       /\ \A i \in 1..Len(text) : IsDigit(text[i])

NumberOf(text) == IF text = TextInf THEN Inf ELSE Fin(DecimalValue(text), 1)

\* the table has a record of this id whose value is a number
Resolves(tbl, id) == \E i \in 1..Len(tbl) : tbl[i].key = id /\ IsNumber(tbl[i].value)

\* the number of that record, nan when the record is missing
ValueOf(tbl, id) ==
    IF Resolves(tbl, id)
    THEN NumberOf(tbl[CHOOSE i \in 1..Len(tbl) : tbl[i].key = id].value)
    ELSE NaN

\* the numbers of the records whose id starts with 'SCC-' and whose label
\* contains 'Clock'
CoreClocks(tbl) ==
    {NumberOf(tbl[i].value) :
        i \in {j \in 1..Len(tbl) :
                 /\ IsStr(tbl[j].key) /\ StartsWith(tbl[j].key, SccPrefix)
                 /\ IsStr(tbl[j].label) /\ Contains(tbl[j].label, ClockWord)
                 /\ IsNumber(tbl[j].value)}}

Greatest(S) == CHOOSE x \in S : \A y \in S : ~FLess(x, y)

\* C8: with an unchanged payload Cpu.frequency returns the number of record
\* SCPUCLK when there is one, else the greatest number among the core clock
\* records, else nan
C8_FrequencyRule ==
    \A t \in Threads :
        (pc[t] = "done" /\ query[t] = "Cpu.frequency")
            => result[t] = Returns("float",
                   <<IF Resolves(data[t], SCPUCLK) THEN ValueOf(data[t], SCPUCLK)
                     ELSE IF CoreClocks(data[t]) # {} THEN Greatest(CoreClocks(data[t]))
                     ELSE NaN>>)

\* C9: with an unchanged payload Cpu.temperature returns the number of the
\* first of TCPUPKG, TCPUIAC, TCPU that has a record with a numeric value
\* (an absent record, a value that is no number or no text count as
\* missing), and nan only when all three are missing
C9_TemperatureChain ==
    \A t \in Threads :
        (pc[t] = "done" /\ query[t] = "Cpu.temperature")
            => result[t] = Returns("float",
                   <<IF Resolves(data[t], TCPUPKG) THEN ValueOf(data[t], TCPUPKG)
                     ELSE IF Resolves(data[t], TCPUIAC) THEN ValueOf(data[t], TCPUIAC)
                     ELSE IF Resolves(data[t], TCPU) THEN ValueOf(data[t], TCPU)
                     ELSE NaN>>)

\* the package record holds no number, the IA cores record holds "nan", and
\* the third cycle has answered with the generic CPU temperature
C9_Witness ==
    /\ pc["main"] = "done" /\ query["main"] = "Cpu.temperature"
    /\ cyc["main"] = <<"ok", "ok", "ok">>
    /\ HasKey(data["main"], TCPUPKG) /\ ~Resolves(data["main"], TCPUPKG)
    /\ HasKey(data["main"], TCPUIAC) /\ ~Resolves(data["main"], TCPUIAC)
    /\ result["main"] = Returns("float", <<Fin(50, 1)>>)

\* C10: Gpu.stats returns (load, used%, used, total, temp) with load the
\* sentinel and temp the number of TGPU1; used% = used / (used + free) * 100
\* and total = used + free when SUSEDVMEM and SFREEVMEM both resolve, and
\* both are the sentinel when either is missing
C10_GpuStatsRule ==
    \A t \in Threads :
        (pc[t] = "done" /\ query[t] = "Gpu.stats")
            => /\ result[t].kind = "tuple"
               /\ result[t].v[1] = NaN
               /\ result[t].v[5] = ValueOf(data[t], TGPU1)
               /\ LET used == ValueOf(data[t], SUSEDVMEM)
                      free == ValueOf(data[t], SFREEVMEM)
                  IN  IF ~IsNan(used) /\ ~IsNan(free)
                      THEN /\ result[t].v[4] = FAdd(used, free)
                           /\ result[t].v[2] =
                                  FMul(FDiv(used, FAdd(used, free)), Fin(100, 1))
                      ELSE result[t].v[2] = NaN /\ result[t].v[4] = NaN

----------------------------------------------------------------------------
(* Freshness, repeatability, concurrency, validity *)

\* thread t takes the step that ends an acquisition cycle of its call
CycleEnds(t) == pc[t] \in {"set_valid", "except"} /\ Len(cyc'[t]) = Len(cyc[t]) + 1

\* thread t takes the step in which its cycle builds sensors_data
CycleParses(t) == pc[t] = "acquire" /\ pc'[t] = "set_cache"

\* the step that ends a cycle of thread t hands the call the table that very
\* cycle built (the empty table when it failed), and the call goes on with the
\* floats it already had and that table, with nothing else
AnswersFromOwnCycle(t) ==
    /\ CycleParses(t) => data'[t] = ParseSensors(shm.elems)
    /\ CycleEnds(t) =>
          /\ data'[t] = (IF pc[t] = "set_valid" THEN data[t] ELSE EmptyTable)
          /\ LET r == Resolve(query[t], Len(cyc'[t]), vals[t], data'[t])
             IN  /\ result'[t] = r.result
                 /\ vals'[t] = r.vals
                 /\ (pc'[t] = "done") = r.done

C12_RepeatableResult ==
    \A t \in Threads :
        (pc[t] = "done" /\ steady[t] /\ prev[t] # NoResult) => result[t] = prev[t]

\* Gpu.is_available has answered False twice in a row while the producer was
\* failing and the cache kept the GPU temperature of an earlier cycle
C12_Witness ==
    /\ pc["main"] = "done" /\ query["main"] = "Gpu.is_available"
    /\ steady["main"] /\ prev["main"] = Returns("bool", <<False>>)
    /\ cyc["main"] = <<"fail">>
    /\ Resolves(_sensor_cache, TGPU1)
    /\ result["main"] = prev["main"]

\* the cache changes only by the step of line 158 of one thread, which puts
\* the whole sensors_data of that thread's cycle in it
WholeTableSwap ==
    _sensor_cache' # _sensor_cache =>
        \E t \in Threads :
            /\ pc[t] = "set_cache" /\ pc'[t] = "set_valid"
            /\ _sensor_cache' = data[t]
            /\ swapped' = data[t]

\* C13: with two threads whose cycles overlap, the cached table is at any
\* time the initial empty table or the whole table one cycle built from one
\* payload (swapped: the sensors_data of the cycle that last passed line 158),
\* never records of two cycles together; and every call computes its result
\* from the tables its own cycles built, whatever the other thread writes
\* into the cache in between
C13_WholeTableOwnResult ==
    /\ [](_sensor_cache = swapped)
    /\ [][WholeTableSwap /\ \A t \in Threads : AnswersFromOwnCycle(t)]_vars

\* main has answered True from the table of its own cycle, while the worker,
\* in the middle of a cycle on a later payload, has put a table without the
\* GPU temperature in the cache
C13_Witness ==
    /\ pc["main"] = "done" /\ query["main"] = "Gpu.is_available"
    /\ cyc["main"] = <<"ok">>
    /\ result["main"] = Returns("bool", <<True>>)
    /\ pc["worker"] = "set_valid"
    /\ _sensor_cache = data["worker"]
    /\ ~HasKey(_sensor_cache, TGPU1)
    /\ _cache_valid

\* no step of a thread outside a cycle, and no step of the producer, touches
\* the cached table or the validity flag
OnlyCyclesWrite ==
    (\A t \in Threads : pc[t] \notin {"set_cache", "set_valid", "except"})
        => UNCHANGED <<_sensor_cache, _cache_valid>>

\* C14: with one thread running the cycles one after the other, whenever a
\* cycle has completed and the next has not begun, _cache_valid is true
\* exactly when that cycle succeeded, and when it is true the cached table is
\* the table that cycle returned; between cycles neither changes
C14_ValidIffLastCycleOk ==
    /\ [](\A t \in Threads :
            Returned(t) =>
                /\ _cache_valid = (LastCycle(t) = "ok")
                /\ _cache_valid => _sensor_cache = data[t])
    /\ [][OnlyCyclesWrite]_vars

\* a call whose first cycle failed and whose second succeeded: the flag is
\* true again and the cache holds the table of the second cycle
C14_Witness ==
    /\ Returned("main") /\ cyc["main"] = <<"fail", "ok">>
    /\ _cache_valid
    /\ _sensor_cache = data["main"]
    /\ _sensor_cache # EmptyTable

============================================================================
